---- MODULE Spec2Model ----
(***************************************************************************)
(* dynomite-derive: the derive macros `Attribute` (enums) and `Item`       *)
(* (structs with named fields), and the behaviour of the code they emit.   *)
(* The macro expansion is modelled as a function from the parsed input to  *)
(* the emitted items; the emitted functions are modelled by interpreting   *)
(* those items, statement by statement, in the order the expansion lists   *)
(* them.                                                                   *)
(***************************************************************************)
EXTENDS Integers, Sequences, FiniteSets, TLC

\* Largest number of named fields of a struct handed to derive(Item).
MaxFields == 2
\* Largest number of variants of an enum handed to derive(Attribute).
MaxVariants == 2
\* Largest number of keys of an attribute map that are no declared field.
MaxExtraKeys == 1

(***************************************************************************)
(* Option, Result, identifiers and strings                                 *)
(***************************************************************************)
None == [none |-> TRUE]
Some(x) == [some |-> x]
IsSome(o) == "some" \in DOMAIN o
Ok(x) == [ok |-> x]
Err(e) == [err |-> e]
IsOk(r) == "ok" \in DOMAIN r
IsErr(r) == "err" \in DOMAIN r

\* A syn::Ident; stringify! yields the identifier's text as a string.
Ident(text) == [sym |-> text]
stringify(ident) == ident.sym

\* The sequences over S of length at most n without repetition.
DistinctSeqs(S, n) ==
    {q \in UNION {[1..k -> S] : k \in 0..n} :
        \A i, j \in DOMAIN q : i # j => q[i] # q[j]}

\* A match: the index of the first arm whose pattern matches (hits[i] is
\* whether the i-th does), 0 if none.
FirstArm(hits) ==
    IF \E i \in DOMAIN hits : hits[i]
    THEN CHOOSE i \in DOMAIN hits : hits[i] /\ \A j \in 1..(i - 1) : ~hits[j]
    ELSE 0

(***************************************************************************)
(* rusoto's AttributeValue: a struct of optional payloads.  `s` is the     *)
(* string payload, `n` stands for every other payload.                     *)
(***************************************************************************)
StringPool == {"Red", "Green", "Blue", "Zed"}
AttributeValue(s, n) == [s |-> s, n |-> n]
AttributeValueDefault == AttributeValue(None, None)
AttributeValues ==
    {AttributeValue(s, n) :
        s \in {None} \cup {Some(t) : t \in StringPool},
        n \in {None, Some("7")}}

\* A macro function either returns or panics with a message.
Ret(x) == [ret |-> x]
Panic(msg) == [panic |-> msg]
IsPanic(r) == "panic" \in DOMAIN r

InvalidType == [kind |-> "InvalidType"]
InvalidFormat == [kind |-> "InvalidFormat"]
MissingField(name) == [kind |-> "MissingField", name |-> name]

(***************************************************************************)
(* derive(Attribute)                                                       *)
(***************************************************************************)
EnumValue(name, vname) == [enum |-> name, variant |-> vname]

\* Mutant: every from-arm yields the first variant.
make_dynomite_attr_first(name, variants) ==
    [self_ty |-> name,
     into_match_arms |->
        [i \in DOMAIN variants |->
            [pat |-> EnumValue(name, variants[i].ident),
             arm |-> stringify(variants[i].ident)]],
     from_match_arms |->
        [i \in DOMAIN variants |->
            [pat |-> stringify(variants[i].ident),
             arm |-> Ok(EnumValue(name, variants[1].ident))]]]

\* The impl of ::dynomite::Attribute emitted for enum `name`.
make_dynomite_attr(name, variants) ==
    [self_ty |-> name,
     into_match_arms |->
        [i \in DOMAIN variants |->
            [pat |-> EnumValue(name, variants[i].ident),
             arm |-> stringify(variants[i].ident)]],
     from_match_arms |->
        [i \in DOMAIN variants |->
            [pat |-> stringify(variants[i].ident),
             arm |-> Ok(EnumValue(name, variants[i].ident))]]]

\* expand_attribute: only enums are expanded.
expand_attribute(ast) ==
    IF ast.data = "Enum"
    THEN Ret(make_dynomite_attr(ast.ident, ast.variants))
    ELSE Panic(<<"Dynomite Attributes can only be generated for enum types">>)

\* The emitted into_attr: the arm of the first pattern matching self, wrapped
\* as the string payload of an otherwise default AttributeValue.
into_attr(impl, self) ==
    LET arms == impl.into_match_arms
        k == FirstArm([i \in DOMAIN arms |-> arms[i].pat = self])
        arm == impl.into_match_arms[k].arm
    IN  [AttributeValueDefault EXCEPT !.s = Some(arm)]

\* Mutant: the label is matched before the payload's presence is looked at,
\* so a value without a string payload reports InvalidFormat.
from_attr_format_first(impl, value) ==
    LET arms == impl.from_match_arms
        k == FirstArm([i \in DOMAIN arms |-> value.s = Some(arms[i].pat)])
    IN  IF k # 0 THEN impl.from_match_arms[k].arm ELSE Err(InvalidFormat)

\* The emitted from_attr: value.s.ok_or(InvalidType).and_then(match ...).
from_attr(impl, value) ==
    IF ~IsSome(value.s)
    THEN Err(InvalidType)
    ELSE LET arms == impl.from_match_arms
             k == FirstArm([i \in DOMAIN arms |-> arms[i].pat = value.s.some])
         IN  IF k # 0 THEN impl.from_match_arms[k].arm ELSE Err(InvalidFormat)

(***************************************************************************)
(* derive(Item): the expansion                                             *)
(***************************************************************************)
\* An attribute's parse_meta(): Meta::Word(name) for #[name], another form
\* (Meta::NameValue, Meta::List) otherwise.
MetaWord(name) == [meta |-> "Word", name |-> name]
MetaNameValue(name) == [meta |-> "NameValue", name |-> name]

\* A syn::Field of a struct with named fields.
Field(ident, ty, attrs) == [ident |-> ident, ty |-> ty, attrs |-> attrs]

HasAttribute(field, attribute_name) ==
    \E attr \in field.attrs : attr.meta = "Word" /\ attr.name = attribute_name

\* Mutant: the first tagged field is returned without looking for a second.
field_with_attribute_first(fields, attribute_name) ==
    LET Tagged(f) == HasAttribute(f, attribute_name)
        tagged == SelectSeq(fields, Tagged)
    IN  Ret(IF tagged = <<>> THEN None ELSE Some(tagged[1]))

\* The field carrying #[attribute_name], if any; a second one panics.
field_with_attribute(fields, attribute_name) ==
    LET Tagged(f) == HasAttribute(f, attribute_name)
        tagged == SelectSeq(fields, Tagged)
    IN  IF Len(tagged) > 1
        THEN Panic(<<"Can't set more than one", attribute_name, "key">>)
        ELSE Ret(IF tagged = <<>> THEN None ELSE Some(tagged[1]))

field_name_with_attribute(fields, attribute_name) ==
    LET r == field_with_attribute(fields, attribute_name)
    IN  IF IsPanic(r) THEN r
        ELSE Ret(IF IsSome(r.ret) THEN Some(r.ret.some.ident) ELSE None)

\* Mutant: the inserted key is a fixed string instead of the field's name.
get_key_inserter_fixed(field_name) ==
    IF IsSome(field_name)
    THEN <<[insert |-> "key", field |-> field_name.some]>>
    ELSE <<>>

\* keys.insert(stringify!(field_name).to_string(), into_attr(self.field_name.clone()));
get_key_inserter(field_name) ==
    IF IsSome(field_name)
    THEN <<[insert |-> stringify(field_name.some), field |-> field_name.some]>>
    ELSE <<>>

\* impl ::dynomite::Item for name { fn key(&self) ... }, only with a hash key.
get_item_trait(name, fields) ==
    LET hash_key_name == field_name_with_attribute(fields, "hash")
        range_key_name == field_name_with_attribute(fields, "range")
    IN  IF IsPanic(hash_key_name) THEN hash_key_name
        ELSE IF IsPanic(range_key_name) THEN range_key_name
        ELSE Ret(IF IsSome(hash_key_name.ret)
                 THEN Some([kind |-> "impl", trait |-> "Item", for |-> name,
                            body |-> get_key_inserter(hash_key_name.ret)
                                        \o get_key_inserter(range_key_name.ret)])
                 ELSE None)

\* format!("{}Key", name): the text of an item's name is a sequence of segments.
KeyName(name) == Ident(Append(name.sym, "Key"))

\* Mutant: the key struct's fields keep their attributes.
get_key_struct_keep_attrs(vis, name, fields) ==
    LET hash_key == field_with_attribute(fields, "hash")
        range_key == field_with_attribute(fields, "range")
    IN  IF IsPanic(hash_key) THEN hash_key
        ELSE IF IsPanic(range_key) THEN range_key
        ELSE Ret(IF IsSome(hash_key.ret)
                 THEN Some([kind |-> "struct",
                            derive |-> {"Item", "Debug", "Clone", "PartialEq"},
                            vis |-> vis,
                            ident |-> KeyName(name),
                            fields |-> <<hash_key.ret.some>>
                                \o (IF IsSome(range_key.ret)
                                    THEN <<range_key.ret.some>>
                                    ELSE <<>>)])
                 ELSE None)

\* #[derive(Item, Debug, Clone, PartialEq)] vis struct nameKey { hash, range },
\* only with a hash key; the fields' attributes are emptied.
get_key_struct(vis, name, fields) ==
    LET hash_key == field_with_attribute(fields, "hash")
        range_key == field_with_attribute(fields, "range")
    IN  IF IsPanic(hash_key) THEN hash_key
        ELSE IF IsPanic(range_key) THEN range_key
        ELSE Ret(IF IsSome(hash_key.ret)
                 THEN Some([kind |-> "struct",
                            derive |-> {"Item", "Debug", "Clone", "PartialEq"},
                            vis |-> vis,
                            ident |-> KeyName(name),
                            fields |-> <<[hash_key.ret.some EXCEPT !.attrs = {}]>>
                                \o (IF IsSome(range_key.ret)
                                    THEN <<[range_key.ret.some EXCEPT !.attrs = {}]>>
                                    ELSE <<>>)])
                 ELSE None)

\* Mutant: every value is inserted under the first field's name.
get_to_attribute_map_function_first(name, fields) ==
    [i \in DOMAIN fields |->
        [insert |-> stringify(fields[1].ident), field |-> fields[i].ident]]

\* values.insert(stringify!(field_name).to_string(), into_attr(item.field_name));
get_to_attribute_map_function(name, fields) ==
    [i \in DOMAIN fields |->
        [insert |-> stringify(fields[i].ident), field |-> fields[i].ident]]

get_to_attribute_map_trait(name, fields) ==
    [kind |-> "impl", trait |-> "From", for |-> name,
     body |-> get_to_attribute_map_function(name, fields)]

\* Mutant: the fields are converted in reverse declaration order.
get_from_attributes_function_rev(fields) ==
    [i \in DOMAIN fields |->
        [field_name |-> fields[Len(fields) + 1 - i].ident,
         remove |-> stringify(fields[Len(fields) + 1 - i].ident),
         missing |-> MissingField(stringify(fields[Len(fields) + 1 - i].ident))]]

\* Mutant: MissingField carries the name of the struct's first field.
get_from_attributes_function_name(fields) ==
    [i \in DOMAIN fields |->
        [field_name |-> fields[i].ident,
         remove |-> stringify(fields[i].ident),
         missing |-> MissingField(stringify(fields[1].ident))]]

\* field_name: from_attr(attrs.remove(stringify!(field_name))
\*     .ok_or(MissingField { name: stringify!(field_name).to_string() })?)?
get_from_attributes_function(fields) ==
    [i \in DOMAIN fields |->
        [field_name |-> fields[i].ident,
         remove |-> stringify(fields[i].ident),
         missing |-> MissingField(stringify(fields[i].ident))]]

get_from_attributes_trait(name, fields) ==
    [kind |-> "impl", trait |-> "FromAttributes", for |-> name,
     body |-> get_from_attributes_function(fields)]

\* The quote! of make_dynomite_item: from, to, then the Item impl and the key
\* struct where there is one.
make_dynomite_item_quote(from_attribute_map, to_attribute_map, item_trait, key_struct) ==
    <<from_attribute_map, to_attribute_map>>
        \o (IF IsSome(item_trait) THEN <<item_trait.some>> ELSE <<>>)
        \o (IF IsSome(key_struct) THEN <<key_struct.some>> ELSE <<>>)

\* expand_item: only structs with named fields are expanded.
expand_item(ast) ==
    IF ast.data = "Struct"
    THEN IF ast.named THEN Ret(ast.fields)
         ELSE Panic(<<"Dynomite Items require named fields">>)
    ELSE Panic(<<"Dynomite Items can only be generated for structs">>)

(***************************************************************************)
(* The emitted code                                                        *)
(***************************************************************************)
\* HashMap::insert: a later insert under the same key replaces the value.
Insert(map, key, value) ==
    [k \in DOMAIN map \cup {key} |-> IF k = key THEN value ELSE map[k]]
\* The map without `key` (HashMap::remove's effect on the map).
Remove(map, key) == [k \in DOMAIN map \ {key} |-> map[k]]
EmptyMap == [k \in {} |-> None]

\* The enums of the program that derive Attribute; a field's type is one of them.
ProgramEnums ==
    {[data |-> "Enum", ident |-> Ident("Color"),
      variants |-> <<[ident |-> Ident("Red")], [ident |-> Ident("Green")]>>],
     [data |-> "Enum", ident |-> Ident("Shape"),
      variants |-> <<[ident |-> Ident("Green")], [ident |-> Ident("Blue")]>>]}
FieldTypes == {e.ident : e \in ProgramEnums}
EnumDecl(ty) == CHOOSE e \in ProgramEnums : e.ident = ty
EnumValuesOf(ast) ==
    {EnumValue(ast.ident, ast.variants[i].ident) : i \in DOMAIN ast.variants}

\* ::dynomite::Attribute::into_attr / from_attr resolved at the field's type.
Attribute_into_attr(ty, value) == into_attr(expand_attribute(EnumDecl(ty)).ret, value)
Attribute_from_attr(ty, value) == from_attr(expand_attribute(EnumDecl(ty)).ret, value)

FieldOf(struct, ident) ==
    struct.fields[CHOOSE i \in DOMAIN struct.fields : struct.fields[i].ident = ident]

\* The statements `map.insert(key, into_attr(self.field))` run in order.
RECURSIVE run_inserts(_, _, _, _)
run_inserts(stmts, struct, self, map) ==
    IF stmts = <<>> THEN map
    ELSE LET st == Head(stmts)
         IN  run_inserts(Tail(stmts), struct, self,
                Insert(map, st.insert,
                    Attribute_into_attr(FieldOf(struct, st.field).ty,
                                        self.f[stringify(st.field)])))

\* The emitted From<Name> for Attributes: fn from(item) -> Self.
From_from(impl, struct, item) == run_inserts(impl.body, struct, item, EmptyMap)

\* The emitted Item::key(&self).
Item_key(impl, struct, self) == run_inserts(impl.body, struct, self, EmptyMap)

VARIABLES
    enum_ast, attr_impl, into_self, into_ret, from_value, from_ret,
    input, todo, ast, pc, locals, emitted, panic_msg,
    item, values, keys, self_ty, arg, attrs, idx, removed, built, result, rpc

evars == <<enum_ast, attr_impl, into_self, into_ret, from_value, from_ret>>
dvars == <<input, todo, ast, pc, locals, emitted, panic_msg>>
rvars == <<item, values, keys, self_ty, arg, attrs, idx, removed, built, result, rpc>>
vars == <<evars, dvars, rvars>>

(***************************************************************************)
(* derive(Attribute) and the emitted codec, as a state machine             *)
(***************************************************************************)
\* Identifiers a variant may carry; an enum's variants are pairwise distinct.
VariantIdents == {Ident("Red"), Ident("Green"), Ident("Blue")}
EnumInputs ==
    {[data |-> "Enum", ident |-> Ident("Kind"),
      variants |-> [i \in DOMAIN q |-> [ident |-> q[i]]]] :
        q \in DistinctSeqs(VariantIdents, MaxVariants)}
\* Inputs derive(Attribute) panics on: a struct, a union.
OtherAttributeInputs ==
    {[data |-> "Struct", ident |-> Ident("P")], [data |-> "Union", ident |-> Ident("U")]}

EnumIdle ==
    /\ attr_impl = None
    /\ into_self = None
    /\ into_ret = None
    /\ from_value = None
    /\ from_ret = None

DeriveIdle ==
    /\ todo = <<>>
    /\ ast = None
    /\ pc = "idle"
    /\ locals = [item_trait |-> None, key_struct |-> None,
                 from_attribute_map |-> None, to_attribute_map |-> None]
    /\ emitted = <<>>
    /\ panic_msg = None

RunIdle ==
    /\ item = None
    /\ values = None
    /\ keys = None
    /\ self_ty = None
    /\ arg = None
    /\ attrs = EmptyMap
    /\ idx = 0
    /\ removed = None
    /\ built = EmptyMap
    /\ result = None
    /\ rpc = "idle"

NoEnum == [data |-> "Enum", ident |-> Ident("Kind"), variants |-> <<>>]
NoStruct == [data |-> "Enum", named |-> FALSE, vis |-> "", ident |-> Ident(<<"Kind">>),
             fields |-> <<>>]

InitEnum ==
    /\ enum_ast \in EnumInputs \cup OtherAttributeInputs
    /\ EnumIdle
    /\ input = NoStruct
    /\ DeriveIdle
    /\ RunIdle

\* derive_attribute: the macro runs once on its input, and panics on an
\* input that is no enum.
derive_attribute ==
    /\ attr_impl = None
    /\ pc = "idle"
    /\ LET r == expand_attribute(enum_ast)
       IN  IF IsPanic(r)
           THEN /\ pc' = "panicked"
                /\ panic_msg' = Some(r.panic)
                /\ UNCHANGED attr_impl
           ELSE /\ attr_impl' = Some(r.ret)
                /\ UNCHANGED <<pc, panic_msg>>
    /\ UNCHANGED <<enum_ast, into_self, into_ret, from_value, from_ret>>
    /\ UNCHANGED <<input, todo, ast, locals, emitted>>
    /\ UNCHANGED rvars

\* A call of the emitted into_attr on a value of the enum.
CallIntoAttr ==
    /\ IsSome(attr_impl)
    /\ into_self = None
    /\ \E v \in EnumValuesOf(enum_ast) :
        /\ into_self' = Some(v)
        /\ into_ret' = Some(into_attr(attr_impl.some, v))
    /\ UNCHANGED <<enum_ast, attr_impl, from_value, from_ret>>
    /\ UNCHANGED <<dvars, rvars>>

\* A call of the emitted from_attr on any attribute value, the one a prior
\* into_attr returned included.
CallFromAttr ==
    /\ IsSome(attr_impl)
    /\ from_value = None
    /\ \E value \in AttributeValues \cup (IF IsSome(into_ret) THEN {into_ret.some} ELSE {}) :
        /\ from_value' = Some(value)
        /\ from_ret' = Some(from_attr(attr_impl.some, value))
    /\ UNCHANGED <<enum_ast, attr_impl, into_self, into_ret>>
    /\ UNCHANGED <<dvars, rvars>>

NextEnum ==
    \/ derive_attribute
    \/ CallIntoAttr
    \/ CallFromAttr

SpecEnum == InitEnum /\ [][NextEnum]_vars

(***************************************************************************)
(* derive(Item) as a state machine: the compiler hands every struct that   *)
(* carries #[derive(Item)] to the macro, the emitted key struct included.  *)
(***************************************************************************)
FieldIdentSeq == <<Ident("id"), Ident("ts"), Ident("body"), Ident("etc")>>

\* The structs with at most MaxFields named fields, the i-th named
\* FieldIdentSeq[i], each of a type of FieldTypes, with attributes from pool.
StructInputs(pool, visibilities) ==
    UNION {
        {[data |-> "Struct", named |-> TRUE, vis |-> v, ident |-> Ident(<<"Person">>),
          fields |-> [i \in 1..n |-> Field(FieldIdentSeq[i], tys[i], ats[i])]] :
            v \in visibilities,
            tys \in [1..n -> FieldTypes],
            ats \in [1..n -> SUBSET pool]} :
        n \in 0..MaxFields}

\* Inputs the macro panics on: an enum, a union, a tuple struct.
OtherInputs ==
    {NoStruct,
     [data |-> "Union", named |-> TRUE, vis |-> "", ident |-> Ident(<<"U">>),
      fields |-> <<>>],
     [data |-> "Struct", named |-> FALSE, vis |-> "", ident |-> Ident(<<"Pair">>),
      fields |-> <<>>]}

derive_item ==
    /\ pc = "idle"
    /\ todo # <<>>
    /\ ast' = Some(Head(todo))
    /\ todo' = Tail(todo)
    /\ LET r == expand_item(Head(todo))
       IN  IF IsPanic(r)
           THEN pc' = "panicked" /\ panic_msg' = Some(r.panic)
           ELSE pc' = "get_item_trait" /\ UNCHANGED panic_msg
    /\ UNCHANGED <<input, locals, emitted>>
    /\ UNCHANGED <<evars, rvars>>

\* make_dynomite_item, first call: get_dynomite_item_traits -> get_item_impls
\* -> get_item_trait.
GetItemTrait ==
    /\ pc = "get_item_trait"
    /\ LET r == get_item_trait(ast.some.ident, ast.some.fields)
       IN  IF IsPanic(r)
           THEN pc' = "panicked" /\ panic_msg' = Some(r.panic) /\ UNCHANGED locals
           ELSE /\ pc' = "get_key_struct"
                /\ locals' = [locals EXCEPT !.item_trait = Some(r.ret)]
                /\ UNCHANGED panic_msg
    /\ UNCHANGED <<input, todo, ast, emitted>>
    /\ UNCHANGED <<evars, rvars>>

\* get_item_impls, second call: get_key_struct.
GetKeyStruct ==
    /\ pc = "get_key_struct"
    /\ LET r == get_key_struct(ast.some.vis, ast.some.ident, ast.some.fields)
       IN  IF IsPanic(r)
           THEN pc' = "panicked" /\ panic_msg' = Some(r.panic) /\ UNCHANGED locals
           ELSE /\ pc' = "get_from_attributes_trait"
                /\ locals' = [locals EXCEPT !.key_struct = Some(r.ret)]
                /\ UNCHANGED panic_msg
    /\ UNCHANGED <<input, todo, ast, emitted>>
    /\ UNCHANGED <<evars, rvars>>

GetFromAttributesTrait ==
    /\ pc = "get_from_attributes_trait"
    /\ locals' = [locals EXCEPT !.from_attribute_map =
                    Some(get_from_attributes_trait(ast.some.ident, ast.some.fields))]
    /\ pc' = "get_to_attribute_map_trait"
    /\ UNCHANGED <<input, todo, ast, emitted, panic_msg>>
    /\ UNCHANGED <<evars, rvars>>

GetToAttributeMapTrait ==
    /\ pc = "get_to_attribute_map_trait"
    /\ locals' = [locals EXCEPT !.to_attribute_map =
                    Some(get_to_attribute_map_trait(ast.some.ident, ast.some.fields))]
    /\ pc' = "quote"
    /\ UNCHANGED <<input, todo, ast, emitted, panic_msg>>
    /\ UNCHANGED <<evars, rvars>>

\* The macro returns its tokens; an emitted struct deriving Item is expanded
\* in turn.
MakeDynomiteItemQuote ==
    /\ pc = "quote"
    /\ LET out == make_dynomite_item_quote(locals.from_attribute_map.some,
                      locals.to_attribute_map.some, locals.item_trait.some,
                      locals.key_struct.some)
           IsDerive(it) == it.kind = "struct" /\ "Item" \in it.derive
           Plain(it) == [data |-> "Struct", named |-> TRUE, vis |-> it.vis,
                         ident |-> it.ident, fields |-> it.fields]
           again == SelectSeq(out, IsDerive)
       IN  /\ emitted' = emitted \o out
           /\ todo' = todo \o [i \in DOMAIN again |-> Plain(again[i])]
    /\ locals' = [item_trait |-> None, key_struct |-> None,
                  from_attribute_map |-> None, to_attribute_map |-> None]
    /\ ast' = None
    /\ pc' = "idle"
    /\ UNCHANGED <<input, panic_msg>>
    /\ UNCHANGED <<evars, rvars>>

NextDerive ==
    \/ derive_item
    \/ GetItemTrait
    \/ GetKeyStruct
    \/ GetFromAttributesTrait
    \/ GetToAttributeMapTrait
    \/ MakeDynomiteItemQuote

DeriveAttrPool == {MetaWord("hash"), MetaWord("range"), MetaNameValue("doc")}

InitDerive ==
    /\ input \in StructInputs(DeriveAttrPool, {"pub", ""}) \cup OtherInputs
    /\ todo = <<input>>
    /\ ast = None
    /\ pc = "idle"
    /\ locals = [item_trait |-> None, key_struct |-> None,
                 from_attribute_map |-> None, to_attribute_map |-> None]
    /\ emitted = <<>>
    /\ panic_msg = None
    /\ enum_ast = NoEnum
    /\ EnumIdle
    /\ RunIdle

SpecDerive == InitDerive /\ [][NextDerive]_vars

(***************************************************************************)
(* The compiled program: the emitted functions are called                  *)
(***************************************************************************)
\* A struct whose fields are not pairwise distinct is rejected by the compiler.
UniqueFields(struct) ==
    \A i, j \in DOMAIN struct.fields :
        i # j => struct.fields[i].ident # struct.fields[j].ident

EmittedStructs == {emitted[i] : i \in {k \in DOMAIN emitted : emitted[k].kind = "struct"}}
Structs == {input} \cup EmittedStructs
HasImpl(trait, name) ==
    \E i \in DOMAIN emitted :
        emitted[i].kind = "impl" /\ emitted[i].trait = trait /\ emitted[i].for = name
ImplOf(trait, name) ==
    emitted[CHOOSE i \in DOMAIN emitted :
        emitted[i].kind = "impl" /\ emitted[i].trait = trait /\ emitted[i].for = name]
StructOf(name) == CHOOSE st \in Structs : st.ident = name

\* Every derive has run without a panic and the whole crate compiles.
Compiled ==
    /\ pc = "idle"
    /\ todo = <<>>
    /\ emitted # <<>>
    /\ \A st \in Structs : UniqueFields(st)

\* The values of a struct type: one value of its type per field.
Instances(struct) ==
    {[ty |-> struct.ident, f |-> f] :
        f \in {g \in [{stringify(struct.fields[i].ident) : i \in DOMAIN struct.fields}
                        -> UNION {EnumValuesOf(e) : e \in ProgramEnums}] :
                 \A i \in DOMAIN struct.fields :
                    g[stringify(struct.fields[i].ident)]
                        \in EnumValuesOf(EnumDecl(struct.fields[i].ty))}}

\* Attribute values an input map holds under a declared field's name: a
\* number attribute and the string attributes of the enums' labels.
ItemAttributeValues ==
    {AttributeValue(None, Some("7"))}
        \cup {AttributeValue(Some(t), None) : t \in {"Red", "Green", "Blue"}}
ExtraKeySeq == <<"x1", "x2", "x3">>
ExtraAttributeValues == {AttributeValue(None, Some("7")), AttributeValue(Some("Red"), None)}
ExtraMaps ==
    UNION {[{ExtraKeySeq[i] : i \in 1..k} -> ExtraAttributeValues] : k \in 0..MaxExtraKeys}
DeclaredKeys(struct) == {stringify(struct.fields[i].ident) : i \in DOMAIN struct.fields}
DeclaredMaps(struct) ==
    UNION {[K -> ItemAttributeValues] : K \in SUBSET DeclaredKeys(struct)}
Merge(m1, m2) ==
    [k \in DOMAIN m1 \cup DOMAIN m2 |-> IF k \in DOMAIN m1 THEN m1[k] ELSE m2[k]]

\* Attributes::from(item) on a value of a struct of the program.
CallFrom ==
    /\ Compiled
    /\ item = None
    /\ rpc = "idle"
    /\ \E st \in Structs : \E r \in Instances(st) :
        /\ HasImpl("From", st.ident)
        /\ item' = Some(r)
        /\ values' = Some(From_from(ImplOf("From", st.ident), st, r))
    /\ UNCHANGED <<keys, self_ty, arg, attrs, idx, removed, built, result, rpc>>
    /\ UNCHANGED <<evars, dvars>>

\* item.key() on the value, where its type implements Item.
CallKey ==
    /\ Compiled
    /\ IsSome(item)
    /\ keys = None
    /\ HasImpl("Item", item.some.ty)
    /\ keys' = Some(Item_key(ImplOf("Item", item.some.ty), StructOf(item.some.ty), item.some))
    /\ UNCHANGED <<item, values, self_ty, arg, attrs, idx, removed, built, result, rpc>>
    /\ UNCHANGED <<evars, dvars>>

\* Self::from_attrs(attrs) is entered: on the map Attributes::from returned,
\* possibly with further keys, or on any map.
CallFromAttrs ==
    /\ Compiled
    /\ rpc = "idle"
    /\ \E st \in Structs :
       \E m \in IF IsSome(item)
                THEN {Merge(values.some, e) : e \in ExtraMaps}
                ELSE {Merge(d, e) : d \in DeclaredMaps(st), e \in ExtraMaps} :
        /\ HasImpl("FromAttributes", st.ident)
        /\ IsSome(item) => st.ident = item.some.ty
        /\ self_ty' = Some(st.ident)
        /\ arg' = Some(m)
        /\ attrs' = m
        /\ idx' = 1
        /\ rpc' = IF st.fields = <<>> THEN "construct" ELSE "remove"
    /\ UNCHANGED <<item, values, keys, removed, built, result>>
    /\ UNCHANGED <<evars, dvars>>

Conversion == ImplOf("FromAttributes", self_ty.some).body[idx]

\* attrs.remove(stringify!(field_name)).ok_or(MissingField { .. })?
FromAttrsRemove ==
    /\ rpc = "remove"
    /\ LET cv == Conversion
       IN  IF cv.remove \in DOMAIN attrs
           THEN /\ removed' = Some(attrs[cv.remove])
                /\ attrs' = Remove(attrs, cv.remove)
                /\ rpc' = "from_attr"
                /\ UNCHANGED result
           ELSE /\ result' = Some(Err(cv.missing))
                /\ rpc' = "returned"
                /\ UNCHANGED <<removed, attrs>>
    /\ UNCHANGED <<item, values, keys, self_ty, arg, idx, built>>
    /\ UNCHANGED <<evars, dvars>>

\* Mutant: a codec failure is wrapped with the field's name.
from_attrs_decode_wrapped(cv, decoded) ==
    IF IsErr(decoded)
    THEN Err([kind |-> "InvalidField", name |-> cv.remove, cause |-> decoded.err])
    ELSE decoded

\* ::dynomite::Attribute::from_attr(..)?  : an Err returns as it is (the
\* function's error type is the codec's), an Ok yields the field's value.
from_attrs_decode(cv, decoded) == decoded

\* field_name: from_attr(removed value)?
FromAttrsDecode ==
    /\ rpc = "from_attr"
    /\ LET cv == Conversion
           ty == FieldOf(StructOf(self_ty.some), cv.field_name).ty
           r == from_attrs_decode(cv, Attribute_from_attr(ty, removed.some))
           n == Len(ImplOf("FromAttributes", self_ty.some).body)
       IN  IF IsErr(r)
           THEN /\ result' = Some(r)
                /\ rpc' = "returned"
                /\ UNCHANGED <<built, idx>>
           ELSE /\ built' = Insert(built, stringify(cv.field_name), r.ok)
                /\ idx' = idx + 1
                /\ rpc' = IF idx = n THEN "construct" ELSE "remove"
                /\ UNCHANGED result
    /\ removed' = None
    /\ UNCHANGED <<item, values, keys, self_ty, arg, attrs>>
    /\ UNCHANGED <<evars, dvars>>

\* Mutant: keys left in the map fail the conversion.
from_attrs_construct_strict(name, fields, rest) ==
    IF rest = EmptyMap
    THEN Ok([ty |-> name, f |-> fields])
    ELSE Err([kind |-> "UnknownField"])

\* Ok(Self { .. }) once every field expression has been evaluated; what is
\* left of the map is dropped.
from_attrs_construct(name, fields, rest) == Ok([ty |-> name, f |-> fields])

FromAttrsReturn ==
    /\ rpc = "construct"
    /\ result' = Some(from_attrs_construct(self_ty.some, built, attrs))
    /\ rpc' = "returned"
    /\ UNCHANGED <<item, values, keys, self_ty, arg, attrs, idx, removed, built>>
    /\ UNCHANGED <<evars, dvars>>

NextRun ==
    \/ CallFrom
    \/ CallKey
    \/ CallFromAttrs
    \/ FromAttrsRemove
    \/ FromAttrsDecode
    \/ FromAttrsReturn

ItemAttrPool == {MetaWord("hash"), MetaWord("range")}

Init ==
    /\ input \in StructInputs(ItemAttrPool, {"pub"})
    /\ todo = <<input>>
    /\ ast = None
    /\ pc = "idle"
    /\ locals = [item_trait |-> None, key_struct |-> None,
                 from_attribute_map |-> None, to_attribute_map |-> None]
    /\ emitted = <<>>
    /\ panic_msg = None
    /\ enum_ast = NoEnum
    /\ EnumIdle
    /\ RunIdle

Next ==
    \/ NextDerive
    \/ NextRun

Spec == Init /\ [][Next]_vars

(***************************************************************************)
(* Properties of the enum codec (SpecEnum)                                 *)
(***************************************************************************)
\* The labels of the enum under derivation: its variants' names.
LabelsOf(e) == {stringify(e.variants[i].ident) : i \in DOMAIN e.variants}

\* C6: from_attr of a value without string payload is Err(InvalidType), whatever
\* else the value holds; of a string payload that is no variant's label,
\* Err(InvalidFormat); it is Ok only for a payload that is a variant's label,
\* and then yields that variant.
C6_EnumDecodeErrors ==
    IsSome(from_ret) =>
        LET value == from_value.some
            ret == from_ret.some
        IN  /\ ~IsSome(value.s) => ret = Err(InvalidType)
            /\ (IsSome(value.s) /\ value.s.some \notin LabelsOf(enum_ast))
                    => ret = Err(InvalidFormat)
            /\ IsOk(ret) <=> (IsSome(value.s) /\ value.s.some \in LabelsOf(enum_ast))
            /\ IsOk(ret) =>
                    /\ ret.ok \in EnumValuesOf(enum_ast)
                    /\ stringify(ret.ok.variant) = value.s.some

\* A value with a number payload and no string payload was refused as InvalidType
\* by an enum that has variants.
C6_Witness ==
    /\ IsSome(from_ret)
    /\ enum_ast.variants # <<>>
    /\ from_value.some = AttributeValue(None, Some("7"))
    /\ from_ret.some = Err(InvalidType)

\* C7: into_attr of a variant is the string attribute of the variant's name,
\* distinct variants have distinct labels, and from_attr of what into_attr
\* returned is the variant.
C7_EnumRoundTrip ==
    /\ IsSome(into_ret) =>
            into_ret.some = AttributeValue(Some(stringify(into_self.some.variant)), None)
    /\ IsSome(attr_impl) =>
            \A v, w \in EnumValuesOf(enum_ast) :
                v # w => into_attr(attr_impl.some, v) # into_attr(attr_impl.some, w)
    /\ (IsSome(into_ret) /\ IsSome(from_ret) /\ from_value = into_ret)
            => from_ret.some = Ok(into_self.some)

\* The second variant of a two-variant enum went through into_attr and back.
C7_Witness ==
    /\ IsSome(into_ret)
    /\ Len(enum_ast.variants) = 2
    /\ into_self.some.variant = enum_ast.variants[2].ident
    /\ from_value = into_ret
    /\ from_ret = Some(Ok(into_self.some))

(***************************************************************************)
(* Properties of the expansion (SpecDerive, Spec)                          *)
(***************************************************************************)
TaggedFields(role) == SelectSeq(input.fields, LAMBDA f : HasAttribute(f, role))
Duplicate(role) == Len(TaggedFields(role)) >= 2
NothingGenerated ==
    /\ emitted = <<>>
    /\ locals = [item_trait |-> None, key_struct |-> None,
                 from_attribute_map |-> None, to_attribute_map |-> None]
NamesRole(msg, role) == msg = <<"Can't set more than one", role, "key">>

\* C5: a struct with two or more #[hash] fields, or two or more #[range] fields,
\* makes the derive panic with a message naming a duplicated role (hash first),
\* before anything is generated and before any emitted function can run; with
\* at most one field per role the classification returns that field or None
\* and the derive does not panic.
C5_DuplicateRole ==
    /\ (Duplicate("hash") \/ Duplicate("range")) =>
            /\ NothingGenerated
            /\ RunIdle
            /\ pc \in {"idle", "get_item_trait", "panicked"}
    /\ pc = "panicked" =>
            /\ Duplicate("hash") \/ Duplicate("range")
            /\ Duplicate("hash") => NamesRole(panic_msg.some, "hash")
            /\ ~Duplicate("hash") => NamesRole(panic_msg.some, "range")
    /\ \A role \in {"hash", "range"} :
            LET r == field_with_attribute(input.fields, role)
            IN  IF Duplicate(role)
                THEN IsPanic(r) /\ NamesRole(r.panic, role)
                ELSE /\ ~IsPanic(r)
                     /\ r.ret = IF TaggedFields(role) = <<>> THEN None
                                ELSE Some(TaggedFields(role)[1])
    /\ (~Duplicate("hash") /\ ~Duplicate("range")) => pc # "panicked"

\* The derive panicked on two #[range] fields, the single #[hash] notwithstanding.
C5_Witness ==
    /\ pc = "panicked"
    /\ Duplicate("range")
    /\ Len(TaggedFields("hash")) = 1
    /\ NamesRole(panic_msg.some, "range")
    /\ NothingGenerated

Terminal == pc = "idle" /\ todo = <<>>
HasRole(role) == TaggedFields(role) # <<>>
Stripped(f) == Field(f.ident, f.ty, {})
KeyFields ==
    <<Stripped(TaggedFields("hash")[1])>>
        \o (IF HasRole("range") THEN <<Stripped(TaggedFields("range")[1])>> ELSE <<>>)
KeyStructs == {emitted[i] : i \in {k \in DOMAIN emitted : emitted[k].kind = "struct"}}
ItemName(it) == IF it.kind = "struct" THEN it.ident ELSE it.for

\* C10: a key struct <Name>Key is emitted exactly when the struct has a #[hash]
\* field (and so is the Item impl); its fields are the hash field then the
\* range field, names and types kept, attributes removed; the derive of the
\* key struct emits its From and FromAttributes impls, no Item impl and no
\* further struct, so the expansion ends after at most two runs.
C10_KeySynthesisOneLevel ==
    /\ \A i \in DOMAIN emitted :
            ItemName(emitted[i]) \in {input.ident, KeyName(input.ident)}
    /\ ~HasImpl("Item", KeyName(input.ident))
    /\ Cardinality(KeyStructs) <= 1
    /\ Cardinality({i \in DOMAIN emitted : emitted[i].kind = "impl"
                        /\ emitted[i].trait = "FromAttributes"}) <= 2
    /\ (emitted # <<>> /\ pc = "idle") =>
            /\ (KeyStructs # {}) <=> HasRole("hash")
            /\ HasImpl("Item", input.ident) <=> HasRole("hash")
            /\ \A ks \in KeyStructs :
                    /\ ks.ident = KeyName(input.ident)
                    /\ ks.vis = input.vis
                    /\ ks.fields = KeyFields
                    /\ \A role \in {"hash", "range"} :
                            field_with_attribute(ks.fields, role) = Ret(None)
    /\ (Terminal /\ emitted # <<>> /\ HasRole("hash")) =>
            /\ HasImpl("From", KeyName(input.ident))
            /\ HasImpl("FromAttributes", KeyName(input.ident))
            /\ ImplOf("From", KeyName(input.ident)).body
                    = [i \in DOMAIN KeyFields |->
                        [insert |-> stringify(KeyFields[i].ident),
                         field |-> KeyFields[i].ident]]
            /\ [i \in DOMAIN KeyFields |->
                    ImplOf("FromAttributes", KeyName(input.ident)).body[i].field_name]
                    = [i \in DOMAIN KeyFields |-> KeyFields[i].ident]
    /\ (Terminal /\ emitted # <<>> /\ ~HasRole("hash")) => Len(emitted) = 2

\* Both derives have run for a struct with a documented #[hash] field and a
\* #[range] field: six items, and nothing is left to expand.
C10_Witness ==
    /\ Terminal
    /\ HasRole("hash")
    /\ HasRole("range")
    /\ TaggedFields("hash")[1].attrs = {MetaWord("hash"), MetaNameValue("doc")}
    /\ TaggedFields("hash") # TaggedFields("range")
    /\ Len(emitted) = 6

(***************************************************************************)
(* Properties of the emitted conversions (Spec)                            *)
(***************************************************************************)
\* The struct whose from_attrs is running, its i-th declared field's key in
\* the map and its type, and what the field's codec makes of the argument.
SelfStruct == StructOf(self_ty.some)
KeyAt(i) == stringify(SelfStruct.fields[i].ident)
TyAt(i) == SelfStruct.fields[i].ty
Present(i) == KeyAt(i) \in DOMAIN arg.some
DecodedAt(i) == Attribute_from_attr(TyAt(i), arg.some[KeyAt(i)])
Failing(i) == ~Present(i) \/ IsErr(DecodedAt(i))
ErrorAt(i) == IF Present(i) THEN DecodedAt(i).err ELSE MissingField(KeyAt(i))
Returned == rpc = "returned"

\* C1: Attributes::from(r) holds every declared field under its own name,
\* encoded by the field's codec, and from_attrs of that map is Ok(r).
C1_RecordRoundTrip ==
    /\ IsSome(values) =>
            LET st == StructOf(item.some.ty)
            IN  /\ DOMAIN values.some = DeclaredKeys(st)
                /\ \A i \in DOMAIN st.fields :
                        values.some[stringify(st.fields[i].ident)]
                            = Attribute_into_attr(st.fields[i].ty,
                                    item.some.f[stringify(st.fields[i].ident)])
    /\ (Returned /\ IsSome(item) /\ arg = values) => result = Some(Ok(item.some))

\* A value of a two-field struct went to a map and back.
C1_Witness ==
    /\ Returned
    /\ IsSome(item)
    /\ arg = values
    /\ Len(StructOf(item.some.ty).fields) = 2
    /\ item.some.ty = input.ident
    /\ result = Some(Ok(item.some))

\* The i-th declared field is in the argument map with a value its codec
\* refuses.
Undecodable(i) == Present(i) /\ IsErr(DecodedAt(i))

\* C2 as claimed: whenever a declared field is present but undecodable, the
\* conversion fails with InvalidField{name, cause}, name the field's and cause
\* the codec's error.
C2_InvalidFieldNamed ==
    Returned =>
        \A i \in DOMAIN SelfStruct.fields :
            Undecodable(i) =>
                result.some = Err([kind |-> "InvalidField", name |-> KeyAt(i),
                                   cause |-> DecodedAt(i).err])

\* C2 as the code has it: whenever a declared field is present but undecodable
\* the conversion fails; when every field declared before it is present and
\* decodable, the error is the codec's own, InvalidType or InvalidFormat,
\* returned as it is: it names no field and nothing wraps it.
C2_BareCodecError ==
    Returned =>
        \A i \in DOMAIN SelfStruct.fields :
            Undecodable(i) =>
                /\ IsErr(result.some)
                /\ (\A j \in 1..(i - 1) : ~Failing(j)) =>
                        /\ result.some = Err(DecodedAt(i).err)
                        /\ result.some.err \in {InvalidType, InvalidFormat}
                        /\ "name" \notin DOMAIN result.some.err

\* The first field was decoded and the second field's value is a string that
\* is no label of its enum.
C2_Witness ==
    /\ Returned
    /\ Len(SelfStruct.fields) = 2
    /\ ~Failing(1)
    /\ Undecodable(2)
    /\ result.some = Err(InvalidFormat)

\* C3 as claimed: whenever the map lacks a declared field's name, the
\* conversion fails with MissingField naming that field.
C3_MissingFieldAny ==
    (Returned) =>
        \A i \in DOMAIN SelfStruct.fields :
            ~Present(i) => result.some = Err(MissingField(KeyAt(i)))

\* C3 as the code has it: whenever the map lacks a declared field's name the
\* conversion fails and yields no record; the error is MissingField naming that
\* field when every field declared before it is present and decodable.
C3_MissingFieldFirst ==
    (Returned) =>
        \A i \in DOMAIN SelfStruct.fields :
            ~Present(i) =>
                /\ IsErr(result.some)
                /\ (\A j \in 1..(i - 1) : ~Failing(j))
                        => result.some = Err(MissingField(KeyAt(i)))

\* The map held a decodable first field and lacked the second.
C3_Witness ==
    /\ Returned
    /\ Len(SelfStruct.fields) = 2
    /\ ~Failing(1)
    /\ ~Present(2)
    /\ result.some = Err(MissingField("ts"))

\* C4: item.key() equals Attributes::from of the key struct's value built from
\* the item's hash (and range) field; it has one entry without a range field
\* and two with one, under the names of the hash and range fields.
C4_KeyProjection ==
    IsSome(keys) =>
        LET name == item.some.ty
            ks == StructOf(KeyName(name))
            key == [ty |-> ks.ident,
                    f |-> [k \in DeclaredKeys(ks) |-> item.some.f[k]]]
            roles == {r \in {"hash", "range"} : HasRole(r)}
        IN  /\ name = input.ident
            /\ HasRole("hash")
            /\ keys.some = From_from(ImplOf("From", ks.ident), ks, key)
            /\ Cardinality(DOMAIN keys.some) = IF HasRole("range") THEN 2 ELSE 1
            /\ DOMAIN keys.some = {stringify(TaggedFields(r)[1].ident) : r \in roles}
            /\ \A k \in DOMAIN keys.some : keys.some[k] = values.some[k]

\* key() was called on a value whose range field is declared before its hash.
C4_Witness ==
    /\ IsSome(keys)
    /\ HasRole("range")
    /\ TaggedFields("range")[1].ident = input.fields[1].ident
    /\ Cardinality(DOMAIN keys.some) = 2

\* C8: on a map holding a decodable value for every declared field, whatever
\* other keys it holds, from_attrs is Ok of the record of the decoded values
\* (which the other keys have no part in).
C8_UnknownKeys ==
    (Returned /\ \A i \in DOMAIN SelfStruct.fields : ~Failing(i)) =>
        result.some = Ok([ty |-> self_ty.some,
                          f |-> [k \in DeclaredKeys(SelfStruct) |->
                                    LET i == CHOOSE j \in DOMAIN SelfStruct.fields :
                                                KeyAt(j) = k
                                    IN  DecodedAt(i).ok]])

\* A map with a key that is no declared field was converted.
C8_Witness ==
    /\ Returned
    /\ Len(SelfStruct.fields) = 2
    /\ DOMAIN arg.some \ DeclaredKeys(SelfStruct) # {}
    /\ DeclaredKeys(SelfStruct) \subseteq DOMAIN arg.some
    /\ IsOk(result.some)

FirstFailing == CHOOSE i \in DOMAIN SelfStruct.fields :
                    Failing(i) /\ \A j \in 1..(i - 1) : ~Failing(j)

\* C9: from_attrs takes the fields in declaration order, removing and decoding
\* one before it touches the next; the error returned is that of the first
\* field, in declaration order, that is missing or undecodable, and no later
\* field has been removed from the map or decoded.
C9_FirstFailureWins ==
    /\ rpc \in {"remove", "from_attr"} =>
            /\ DOMAIN built = {KeyAt(j) : j \in 1..(idx - 1)}
            /\ DOMAIN attrs = DOMAIN arg.some
                    \ {KeyAt(j) : j \in 1..(IF rpc = "remove" THEN idx - 1 ELSE idx)}
            /\ \A j \in 1..(idx - 1) : ~Failing(j)
    /\ (Returned /\ \E i \in DOMAIN SelfStruct.fields : Failing(i)) =>
            /\ result.some = Err(ErrorAt(FirstFailing))
            /\ idx = FirstFailing
            /\ DOMAIN built = {KeyAt(j) : j \in 1..(FirstFailing - 1)}
            /\ DOMAIN attrs = DOMAIN arg.some \ {KeyAt(j) : j \in 1..FirstFailing}

\* The first field was undecodable and the second missing: the first's error.
C9_Witness ==
    /\ Returned
    /\ Len(SelfStruct.fields) = 2
    /\ Present(1)
    /\ IsErr(DecodedAt(1))
    /\ ~Present(2)
    /\ result.some = Err(DecodedAt(1).err)

====
